---- MODULE Spec2Model ----
(***************************************************************************)
(* Model of the noisy crawler (src/noisy.py): the session loop             *)
(* Crawler.crawl, the recursive random walk Crawler._browse_from_links,    *)
(* link extraction / normalisation and the URL acceptance filter.          *)
(*                                                                         *)
(* Strings are sequences of one-character strings, so that the regular     *)
(* expression of _is_valid_url, the substring test of _is_blacklisted and  *)
(* urlparse / urljoin are computed character by character.                 *)
(***************************************************************************)
EXTENDS Integers, Sequences, FiniteSets, TLC

\* ------------------------------------------------------------------ bounds
\* Longest list of href values a fetched body holds.
MaxHrefs == 2
\* config["max_depth"] is drawn from {0, MaxDepth}.
MaxDepth == 2
\* config["timeout"] is drawn from {0 (absent), Timeout}.
Timeout == 2
\* The clock saturates here, past the deadline.
MaxClock == Timeout + 1
\* config["min_sleep"], config["max_sleep"].
MinSleep == 1
MaxSleep == 2
\* A session is followed until its blacklist holds this many entries.
MaxBlacklist == 3

\* ------------------------------------------------------------- characters
UpperSeq ==
    <<"A","B","C","D","E","F","G","H","I","J","K","L","M",
      "N","O","P","Q","R","S","T","U","V","W","X","Y","Z">>
LowerSeq ==
    <<"a","b","c","d","e","f","g","h","i","j","k","l","m",
      "n","o","p","q","r","s","t","u","v","w","x","y","z">>
Upper == {UpperSeq[i] : i \in 1..26}
Lower == {LowerSeq[i] : i \in 1..26}
Letters == Upper \cup Lower
Digits == {"0","1","2","3","4","5","6","7","8","9"}
\* [A-Z0-9] under re.IGNORECASE
AlNum == Letters \cup Digits
\* [A-Z0-9-] under re.IGNORECASE
AlNumHyphen == AlNum \cup {"-"}
\* the complement of \S
Whitespace == {" ", "\t", "\n", "\r", "\f"}
\* characters urlsplit allows in a scheme
SchemeChars == AlNum \cup {"+", "-", "."}

ToLower(c) ==
    IF c \in Upper THEN LowerSeq[CHOOSE i \in 1..26 : UpperSeq[i] = c] ELSE c

\* Python's None, as a value no string equals.
None == <<"None">>
\* None where a time is expected (self._start_time before crawl)
NoTime == 0 - 1

\* ------------------------------------------------------- string primitives
\* s[i:] with a 0-based Python index
From(s, i) == SubSeq(s, i + 1, Len(s))
\* s[:i]
Upto(s, i) == SubSeq(s, 1, i)
\* s.startswith(t)
StartsWith(s, t) == Len(t) <= Len(s) /\ SubSeq(s, 1, Len(t)) = t
\* t in s (substring containment of str)
Contains(s, t) ==
    \E i \in 0..(Len(s) - Len(t)) : SubSeq(s, i + 1, i + Len(t)) = t
\* the first 0-based index >= lo of a character of set cs, or Len(s)
FindFirst(s, cs, lo) ==
    IF \E i \in (lo + 1)..Len(s) : s[i] \in cs
    THEN (CHOOSE i \in (lo + 1)..Len(s) :
              s[i] \in cs /\ \A j \in (lo + 1)..(i - 1) : s[j] \notin cs) - 1
    ELSE Len(s)
\* the last 0-based index of character c, or -1 (str.rfind)
RFind(s, c) ==
    IF \E i \in 1..Len(s) : s[i] = c
    THEN (CHOOSE i \in 1..Len(s) :
              s[i] = c /\ \A j \in (i + 1)..Len(s) : s[j] # c) - 1
    ELSE -1

\* --------------------------------------------- _is_valid_url: the regex
\* Each matcher maps a position (characters consumed so far) to the set of
\* positions the sub-expression can end at, which is what backtracking
\* explores.
\* a literal, compared case-insensitively
Lit(s, p, lit) ==
    IF p + Len(lit) <= Len(s)
       /\ \A i \in 1..Len(lit) : ToLower(s[p + i]) = lit[i]
    THEN {p + Len(lit)}
    ELSE {}
\* x? for a one-character literal
OptLit(s, P, lit) == P \cup UNION {Lit(s, p, lit) : p \in P}
\* cs{lo,hi}
Rep(s, p, cs, lo, hi) ==
    {p + n : n \in {m \in lo..hi : p + m <= Len(s)
                                   /\ \A i \in 1..m : s[p + i] \in cs}}
\* ^(?:http|ftp)s?://
SchemeEnds(s) ==
    UNION {Lit(s, p, <<":", "/", "/">>) :
           p \in OptLit(s, Lit(s, 0, <<"h","t","t","p">>)
                            \cup Lit(s, 0, <<"f","t","p">>), <<"s">>)}
\* (?:[A-Z0-9](?:[A-Z0-9-]{0,61}[A-Z0-9])?\.)+ from position p: a label holds
\* no dot, so every dot up to the end position closes a label; each label has
\* 1 to 63 characters and begins and ends with a letter or digit.
Labels(s, p) ==
    {q \in (p + 1)..Len(s) :
        /\ s[q] = "."
        /\ s[p + 1] \in AlNum
        /\ \A i \in (p + 1)..q :
              /\ s[i] \in AlNumHyphen \cup {"."}
              /\ s[i] = "." => i > p + 1 /\ s[i - 1] \in AlNum
              /\ (s[i] = "." /\ i < q) => s[i + 1] \in AlNum
        /\ \A i \in (p + 1)..(q - 63) : \E j \in i..(i + 63) : s[j] = "."}
\* (?:[A-Z]{2,6}\.?|[A-Z0-9-]{2,}\.?)
Tld(s, p) ==
    OptLit(s, Rep(s, p, Letters, 2, 6) \cup Rep(s, p, AlNumHyphen, 2, Len(s)),
           <<".">>)
\* \d{1,3}\.\d{1,3}\.\d{1,3}\.\d{1,3}
Ip(s, p) ==
    LET Dot(P) == UNION {Lit(s, q, <<".">>) : q \in P}
        Num(P) == UNION {Rep(s, q, Digits, 1, 3) : q \in P}
    IN  Num(Dot(Num(Dot(Num(Dot(Num({p})))))))
\* (?::\d+)?
Port(s, P) ==
    P \cup UNION {Rep(s, q, Digits, 1, Len(s)) :
                  q \in UNION {Lit(s, p, <<":">>) : p \in P}}
\* $ matches at the end and just before a final newline
AtEnd(s, p) == p = Len(s) \/ (p = Len(s) - 1 /\ s[Len(s)] = "\n")
\* (?:/?|[/?]\S+)$
PathEnd(s, p) ==
    \/ \E q \in OptLit(s, {p}, <<"/">>) : AtEnd(s, q)
    \/ \E f \in Lit(s, p, <<"/">>) \cup Lit(s, p, <<"?">>) :
         \E q \in Rep(s, f, {s[i] : i \in 1..Len(s)} \ Whitespace, 1, Len(s)) :
             AtEnd(s, q)

_is_valid_url(url) ==
    \E h \in SchemeEnds(url) :
        \E p \in Port(url, UNION {Tld(url, d) : d \in Labels(url, h)}
                           \cup Ip(url, h)) :
            PathEnd(url, p)

\* ------------------------------------------------- urlparse and urljoin
\* schemes urllib.parse resolves relative references for (uses_relative),
\* as far as the regex of _is_valid_url lets a fetched page have one
UsesRelative == {<<"h","t","t","p">>, <<"h","t","t","p","s">>, <<"f","t","p">>}

\* urllib.parse.urlparse: scheme, netloc and path of url; error stands for the
\* ValueError of a netloc with an unbalanced bracket.
urlparse(url) ==
    LET i == FindFirst(url, {":"}, 0)
        hasScheme == /\ 0 < i /\ i < Len(url)
                     /\ url[1] \in Letters
                     /\ \A k \in 1..i : url[k] \in SchemeChars
        scheme == IF hasScheme
                  THEN [k \in 1..i |-> ToLower(url[k])] ELSE <<>>
        rest == IF hasScheme THEN From(url, i + 1) ELSE url
        hasNetloc == StartsWith(rest, <<"/", "/">>)
        stop == FindFirst(rest, {"/", "?", "#"}, 2)
        netloc == IF hasNetloc THEN SubSeq(rest, 3, stop) ELSE <<>>
        after == IF hasNetloc THEN From(rest, stop) ELSE rest
        path == Upto(after, FindFirst(after, {"?", "#"}, 0))
        open == \E k \in 1..Len(netloc) : netloc[k] = "["
        close == \E k \in 1..Len(netloc) : netloc[k] = "]"
    IN  [scheme |-> scheme, netloc |-> netloc, path |-> path,
         error |-> (open /\ ~close) \/ (close /\ ~open)]

\* urllib.parse.urljoin(base, url) for a reference that has neither scheme
\* nor netloc (the only ones _normalize_link passes), whose path has no dot
\* segment and which carries no query or fragment.
urljoin(base, url) ==
    IF base = <<>> THEN url
    ELSE IF url = <<>> THEN base
    ELSE LET b == urlparse(base)
             u == urlparse(url)
             slash == RFind(b.path, "/")
             merged == IF u.path = <<>> THEN b.path
                       ELSE IF StartsWith(u.path, <<"/">>) THEN u.path
                       ELSE IF slash < 0 THEN <<"/">> \o u.path
                       ELSE Upto(b.path, slash + 1) \o u.path
         IN  IF b.scheme \notin UsesRelative THEN url
             ELSE b.scheme \o <<":", "/", "/">> \o b.netloc \o merged

_normalize_link(link, root_url) ==
    LET parsed_url == urlparse(link)
        parsed_root_url == urlparse(root_url)
    IN  IF parsed_url.error THEN None
        ELSE IF StartsWith(link, <<"/", "/">>)
        THEN parsed_root_url.scheme \o <<":", "/", "/">>
                 \o parsed_url.netloc \o parsed_url.path
        ELSE IF parsed_url.scheme = <<>> THEN urljoin(root_url, link)
        ELSE link

\* ------------------------------------------------------------ the inputs
A_IO == <<"h","t","t","p",":","/","/","a",".","i","o">>
B_IO == <<"h","t","t","p",":","/","/","b",".","i","o">>
\* href values a page may carry: an empty one (the page itself), a path, a
\* protocol-relative reference and a scheme the regex refuses
Hrefs ==
    { <<>>,
      <<"/","x">>,
      <<"/","/","b",".","i","o">>,
      <<"j","s",":","0">> }
\* a body is given by the href values re.findall meets, in order
Bodies == UNION {[1..n -> Hrefs] : n \in 0..MaxHrefs}
\* what one GET can come to: a body, an error inside the try of _request, or
\* an exception of resp.text(), which _request does not catch
Responses ==
    [kind : {"ok"}, body : Bodies]
    \cup [kind : {"error"}, body : {<<>>}]
    \cup [kind : {"ClientError", "MemoryError", "UnicodeDecodeError"},
          body : {<<>>}]
RootUrls == <<A_IO, B_IO>>

\* config["blacklisted_urls"] as loaded: one entry, a substring of URLs
SeedBlacklists == {<< <<"b",".","i","o","/">> >>}

\* --------------------------------------------------------------- the state
VARIABLES
    config,       \* self._config
    links,        \* self._links
    start_time,   \* self._start_time (None before crawl)
    now,          \* datetime.datetime.now(), in seconds
    pc,           \* where the single flow of control stands
    url,          \* crawl: the root URL of this iteration
    depth,        \* _browse_from_links: depth of the current frame
    random_link,  \* _browse_from_links: the chosen candidate
    exc,          \* the exception in flight, "none" without one
    hops,         \* candidate fetches of the current walk
    size0,        \* len(self._links) when the current walk began
    small         \* every page of the current walk gave at most one link

vars == <<config, links, start_time, now, pc, url, depth, random_link,
          exc, hops, size0, small>>

Range(s) == {s[i] : i \in 1..Len(s)}
Min(a, b) == IF a < b THEN a ELSE b

\* ------------------------------------------------------------- the filter
\* a blacklist compared for equality instead of containment
_is_blacklisted_exact(u) ==
    \E k \in 1..Len(config.blacklisted_urls) : u = config.blacklisted_urls[k]

_is_blacklisted(u) ==
    \E k \in 1..Len(config.blacklisted_urls) :
        Contains(u, config.blacklisted_urls[k])

\* the truth value of `url and valid and not blacklisted`
_should_accept_url(u) ==
    /\ u # None
    /\ u # <<>>
    /\ _is_valid_url(u)
    /\ ~_is_blacklisted(u)

\* re.findall of href=["'](?!#)(.*?)["']: the values not starting with #
FindAll(body) ==
    LET NotFragment(h) == ~StartsWith(h, <<"#">>)
    IN  SelectSeq(body, NotFragment)

\* a filter that does not consult the blacklist
_extract_urls_valid_only(body, root_url) ==
    LET urls == FindAll(body)
        normalize_urls ==
            [k \in 1..Len(urls) |-> _normalize_link(urls[k], root_url)]
        Valid(u) == u # None /\ u # <<>> /\ _is_valid_url(u)
    IN  SelectSeq(normalize_urls, Valid)

_extract_urls(body, root_url) ==
    LET urls == FindAll(body)
        normalize_urls ==
            [k \in 1..Len(urls) |-> _normalize_link(urls[k], root_url)]
    IN  SelectSeq(normalize_urls, _should_accept_url)

\* a fetch that hands on the body of the error page
_request_error_page(resp) ==
    IF resp.kind = "error" THEN << <<"/","x">>, <<>> >> ELSE resp.body

\* _request: the body, '' for an error caught at lines 42-44
_request(resp) == IF resp.kind = "error" THEN <<>> ELSE resp.body

\* list.index
Index(s, x) == CHOOSE i \in 1..Len(s) : s[i] = x /\ \A j \in 1..(i - 1) : s[j] # x
\* a removal of every occurrence of s[i] instead of the one at i
Pop_all(s, i) ==
    LET Other(x) == x # s[i]
    IN  SelectSeq(s, Other)

\* list.pop(i)
Pop(s, i) == SubSeq(s, 1, i - 1) \o SubSeq(s, i + 1, Len(s))

\* a deadline test without the test of a configured timeout
_is_timeout_reached_unguarded == now >= start_time + config.timeout

_is_timeout_reached ==
    /\ config.timeout # 0
    /\ now >= start_time + config.timeout

\* ---------------------------------------------------------------- Init
Init ==
    /\ config \in [root_urls : {RootUrls},
                   blacklisted_urls : SeedBlacklists,
                   max_depth : {0, MaxDepth},
                   min_sleep : {MinSleep},
                   max_sleep : {MaxSleep},
                   timeout : {0, Timeout}]
    /\ links = <<>>
    /\ start_time = NoTime
    /\ now = 0
    /\ pc = "crawl"
    /\ url = None
    /\ depth = 0
    /\ random_link = None
    /\ exc = "none"
    /\ hops = 0
    /\ size0 = 0
    /\ small = TRUE

\* a walk without the handler of line 178
Propagate_to_crawl(kind, in_try) == "crawl_except"

\* ------------------------------------------------------ exception routing
\* Where an exception raised in _browse_from_links lands: the handler of
\* line 178 takes a ClientError raised inside the try of lines 162-176;
\* everything else leaves every frame of the recursion (the recursive call
\* of line 183 stands outside the try) and reaches the try of crawl.
Propagate(kind, in_try) ==
    IF in_try /\ kind = "ClientError" THEN "browse_except" ELSE "crawl_except"

\* a session loop without the clause of MemoryError
CrawlHandler_no_memory(kind) ==
    IF kind \in {"ClientError", "LocationParseError"}
    THEN "loop"
    ELSE IF kind = "CrawlerTimedOut" THEN "done"
    ELSE "crashed"

\* a catch-all clause standing before the clause of CrawlerTimedOut
CrawlHandler_catch_all(kind) ==
    IF kind \in {"ClientError", "MemoryError", "LocationParseError"}
    THEN "loop"
    ELSE "loop"

\* The except clauses of crawl, lines 232-243.
CrawlHandler(kind) ==
    IF kind \in {"ClientError", "MemoryError", "LocationParseError"}
    THEN "loop"
    ELSE IF kind = "CrawlerTimedOut" THEN "done"
    ELSE "crashed"

\* a blacklisting that leaves the frontier as it is
_remove_and_blacklist_keep(link) ==
    /\ config' = [config EXCEPT !.blacklisted_urls = @ \o <<link>>]
    /\ links' = links
    /\ exc' = "none"

\* a removal done twice: the second index() raises unless link is there again
_remove_and_blacklist_twice(link) ==
    /\ config' = [config EXCEPT !.blacklisted_urls = @ \o <<link>>]
    /\ LET once == Pop(links, Index(links, link))
       IN  IF link \in Range(once)
           THEN links' = Pop(once, Index(once, link)) /\ exc' = "none"
           ELSE links' = once /\ exc' = "ValueError"

\* an assignment of the blacklist where += stands
_remove_and_blacklist_replace(link) ==
    /\ config' = [config EXCEPT !.blacklisted_urls = <<link>>]
    /\ IF link \in Range(links)
       THEN links' = Pop(links, Index(links, link)) /\ exc' = "none"
       ELSE links' = links /\ exc' = "ValueError"

\* lines 141-142: the append comes first, so it stays when index() raises
_remove_and_blacklist(link) ==
    /\ config' = [config EXCEPT !.blacklisted_urls = @ \o <<link>>]
    /\ IF link \in Range(links)
       THEN links' = Pop(links, Index(links, link)) /\ exc' = "none"
       ELSE links' = links /\ exc' = "ValueError"

\* The iteration of crawl ends: the frames of _browse_from_links are left
\* and their locals gone, url is dead until line 225 assigns it again, and
\* the walk's counters start afresh.
WalkLeft ==
    /\ url' = None
    /\ depth' = 0
    /\ random_link' = None
    /\ hops' = 0
    /\ size0' = 0
    /\ small' = TRUE

\* a dead-end test that looks at the frontier only
IsDeadEnd_empty_only == Len(links) = 0

\* a depth test that lets depth = max_depth through
IsDeadEnd_strict == Len(links) = 0 \/ depth > config.max_depth

\* line 152-153
IsDeadEnd == Len(links) = 0 \/ depth >= config.max_depth

\* a recursive call that passes depth on as it is
_browse_from_links_same_depth == depth' = depth /\ pc' = "browse"

\* line 183: await self._browse_from_links(depth + 1)
_browse_from_links == depth' = depth + 1 /\ pc' = "browse"

\* ------------------------------------------------------------ the actions
\* line 222
crawl_start ==
    /\ pc = "crawl"
    /\ start_time' = now
    /\ pc' = "loop"
    /\ UNCHANGED <<config, links, now, url, depth, random_link,  exc, hops, size0, small>>

\* lines 225-227: the root is chosen and its GET sent
crawl_fetch_root ==
    /\ pc = "loop"
    /\ \E r \in Range(config.root_urls) : url' = r
    /\ pc' = "root_request"
    /\ UNCHANGED <<config, links, start_time, now, depth, random_link,
                   exc, hops, size0, small>>

\* a seeding that adds the root page's links to the frontier it finds
seed_extend(found) ==
    /\ links' = links \o found
    /\ depth' = 0
    /\ hops' = 0
    /\ size0' = Len(links')
    /\ small' = TRUE
    /\ pc' = "browse"
    /\ UNCHANGED <<config, start_time, now, url, random_link,  exc>>

\* lines 228-230: the frontier is assigned the links found in the root page
\* and _browse_from_links() is called, depth = 0
seed(found) ==
    /\ links' = found
    /\ depth' = 0
    /\ hops' = 0
    /\ size0' = Len(links')
    /\ small' = TRUE
    /\ pc' = "browse"
    /\ UNCHANGED <<config, start_time, now, url, random_link,  exc>>

\* lines 227-230 when the GET of the root comes to resp
root_response_with(resp) ==
    /\ pc = "root_request"
    /\ resp.kind \in {"ok", "error"}
    /\ \E found \in {_extract_urls(_request(resp), url)} : seed(found)

\* lines 227-230: the body arrives, the frontier is seeded, the walk begins
root_response == \E resp \in Responses : root_response_with(resp)

\* line 227: resp.text() raises
root_raise ==
    /\ pc = "root_request"
    /\ \E resp \in Responses :
          /\ resp.kind \notin {"ok", "error"}
          /\ exc' = resp.kind
    /\ pc' = "crawl_except"
    /\ UNCHANGED <<config, links, start_time, now, url, depth, random_link,
                   hops, size0, small>>

\* lines 152-156: the walk returns to crawl, which loops
browse_dead_end ==
    /\ pc = "browse"
    /\ IsDeadEnd
    /\ pc' = "loop"
    /\ WalkLeft
    /\ UNCHANGED <<config, links, start_time, now, exc>>

\* lines 158-159
browse_timed_out ==
    /\ pc = "browse"
    /\ ~IsDeadEnd
    /\ _is_timeout_reached
    /\ exc' = "CrawlerTimedOut"
    /\ pc' = Propagate("CrawlerTimedOut", FALSE)
    /\ UNCHANGED <<config, links, start_time, now, url, depth, random_link,
                   hops, size0, small>>

\* lines 161-163: a candidate is chosen and its GET sent
browse_fetch ==
    /\ pc = "browse"
    /\ ~IsDeadEnd
    /\ ~_is_timeout_reached
    /\ Len(config.blacklisted_urls) < MaxBlacklist
    /\ \E l \in Range(links) : random_link' = l
    /\ hops' = hops + 1
    /\ pc' = "hop_request"
    /\ UNCHANGED <<config, links, start_time, now, url, depth,  exc, size0, small>>

\* line 163: resp.text() raises inside the try
hop_raise ==
    /\ pc = "hop_request"
    /\ \E resp \in Responses :
          /\ resp.kind \notin {"ok", "error"}
          /\ exc' = resp.kind
          /\ pc' = Propagate(resp.kind, TRUE)
    /\ UNCHANGED <<config, links, start_time, now, url, depth, random_link,
                   hops, size0, small>>

\* lines 166-183, sub_links being the links line 164 found in the page
update(sub_links) ==
    /\ small' = (small /\ Len(sub_links) <= 1)
    /\ IF Len(sub_links) > 1
       THEN /\ links' = sub_links
            /\ UNCHANGED <<config, exc>>
       ELSE _remove_and_blacklist(random_link)
    /\ \E d \in config.min_sleep..(config.max_sleep - 1) :
          now' = Min(now + d, MaxClock)
    /\ IF exc' = "none"
       THEN _browse_from_links
       ELSE depth' = depth /\ pc' = Propagate(exc', TRUE)
    /\ UNCHANGED <<start_time, url, random_link, hops, size0>>

\* lines 163-176 and 183: the body arrives, its links are extracted, the
\* walk pauses (time.sleep blocks, nothing else runs), the frontier is
\* updated and the next frame is entered. Line 172 extracts the links of
\* sub_page a second time, with the blacklist of line 164: the same list.
hop_response_with(resp) ==
    /\ pc = "hop_request"
    /\ resp.kind \in {"ok", "error"}
    /\ \E sub_links \in {_extract_urls(_request(resp), random_link)} :
          update(sub_links)

hop_response == \E resp \in Responses : hop_response_with(resp)

\* lines 178-183: the transport error is handled in the walk
browse_except ==
    /\ pc = "browse_except"
    /\ _remove_and_blacklist(random_link)
    /\ IF exc' = "none"
       THEN _browse_from_links
       ELSE depth' = depth /\ pc' = Propagate(exc', FALSE)
    /\ UNCHANGED <<start_time, now, url, random_link, hops, size0,
                   small>>

\* lines 232-239: log, next iteration
crawl_except_continue ==
    /\ pc = "crawl_except"
    /\ CrawlHandler(exc) = "loop"
    /\ pc' = "loop"
    /\ exc' = "none"
    /\ WalkLeft
    /\ UNCHANGED <<config, links, start_time, now>>

\* lines 241-243: log, return
crawl_except_timed_out ==
    /\ pc = "crawl_except"
    /\ CrawlHandler(exc) = "done"
    /\ pc' = "done"
    /\ WalkLeft
    /\ UNCHANGED <<config, links, start_time, now, exc>>

\* no except clause matches: the exception leaves crawl
crawl_uncaught ==
    /\ pc = "crawl_except"
    /\ CrawlHandler(exc) = "crashed"
    /\ pc' = "crashed"
    /\ WalkLeft
    /\ UNCHANGED <<config, links, start_time, now, exc>>

\* time passes while a GET is in flight
Tick ==
    /\ pc \in {"root_request", "hop_request"}
    /\ now < MaxClock
    /\ now' = now + 1
    /\ UNCHANGED <<config, links, start_time, pc, url, depth, random_link,
                   exc, hops, size0, small>>

Step ==
    \/ crawl_start
    \/ crawl_fetch_root
    \/ root_response
    \/ root_raise
    \/ browse_dead_end
    \/ browse_timed_out
    \/ browse_fetch
    \/ hop_response
    \/ hop_raise
    \/ browse_except
    \/ crawl_except_continue
    \/ crawl_except_timed_out
    \/ crawl_uncaught

Next == Step \/ Tick

Spec == Init /\ [][Next]_vars

\* The flow of control never stalls, every GET ends (REQUEST_TIMEOUT), and
\* time passes during the GETs.
FairSpec == Spec /\ WF_vars(Step) /\ SF_vars(Tick)

\* ================================================================ claims
A_IO_X == A_IO \o <<"/", "x">>
B_IO_X == B_IO \o <<"/", "x">>
Blacklist == config.blacklisted_urls
\* a GET is sent by this step
FetchIssued ==
    /\ pc' \in {"root_request", "hop_request"}
    /\ pc \notin {"root_request", "hop_request"}
\* the clock has gone past start_time + timeout
PastDeadline == config.timeout # 0 /\ now > start_time + config.timeout

\* C1: with a timeout configured the session reaches its exit instead of
\* fetching roots forever, whatever the roots, pages and fetch outcomes are
\* (roots with an empty frontier and max_depth = 0 included).
C1_NoEndlessRootFetching ==
    (config.timeout # 0) => ~[]<>(pc = "root_request")

\* C2: no GET, of a candidate or of a root, is sent at a moment when the
\* clock is already past the deadline.
C2_NoFetchPastDeadline == [][FetchIssued => ~PastDeadline]_vars

\* C3: the candidate fetches of one walk never exceed max_depth.
C3_HopsWithinMaxDepth == hops <= config.max_depth
\* a walk that spent its whole depth budget and stops for it
C3_Witness ==
    /\ pc = "browse"
    /\ config.max_depth > 0
    /\ hops = config.max_depth
    /\ links # <<>>

\* C4: no failure other than the timeout signal ever leaves the session
\* loop: the loop catches it and goes on with a new root.
C4_LoopNeverAborts == pc # "crashed"

\* C5: once a walk step raises the timeout signal, no handler swallows it:
\* the next step is the exit of the session, the frontier and the blacklist
\* stay as they are, nothing is fetched, and the exit is reached.
C5_TimedOutEndsSession ==
    /\ [][exc = "CrawlerTimedOut"
            => pc' = "done" /\ links' = links /\ config' = config]_vars
    /\ (exc = "CrawlerTimedOut") ~> (pc = "done")
\* the signal raised by a frame below the first one
C5_Witness == exc = "CrawlerTimedOut" /\ pc = "crawl_except" /\ depth > 0

\* C6: a link that was removed and blacklisted is never fetched again,
\* neither as a candidate nor as a root.
C6_BlacklistedNeverFetched ==
    /\ pc = "hop_request" => random_link \notin Range(Blacklist)
    /\ pc = "root_request" => url \notin Range(Blacklist)

\* C7: every step keeps the entries of the blacklist, in place: the list
\* only grows, and a new root does not reset it.
C7_BlacklistOnlyGrows ==
    [][/\ Len(Blacklist') >= Len(Blacklist)
       /\ SubSeq(Blacklist', 1, Len(Blacklist)) = Blacklist]_vars
\* a later root is being fetched with the entries of earlier walks kept
C7_Witness ==
    /\ pc = "root_request"
    /\ Len(Blacklist) = MaxBlacklist

\* C8: the session leaves the configuration it was started with as it was:
\* blacklisted_urls keeps its startup value.
C8_ConfigUnchanged == [][config'.blacklisted_urls = config.blacklisted_urls]_vars

\* t occurs in s: some stretch of s reads t, character by character
Occurs(t, s) ==
    \E off \in 0..(Len(s) - Len(t)) : \A j \in 1..Len(t) : s[off + j] = t[j]
\* values the filter is asked about
AcceptanceInputs ==
    {None, <<>>, A_IO, A_IO_X, B_IO, B_IO_X, <<"j","s",":","0">>}
\* C9: a URL is accepted exactly when it is non-empty, matches the URL
\* syntax and holds no blacklist entry as a substring; and the step that
\* filters the links of a root page changes the frontier only.
C9_AcceptanceIsThePredicate ==
    /\ [](\A u \in AcceptanceInputs :
            _should_accept_url(u) <=>
                /\ u # None
                /\ Len(u) > 0
                /\ _is_valid_url(u)
                /\ \A k \in 1..Len(Blacklist) : ~Occurs(Blacklist[k], u))
    /\ [][pc = "root_request" /\ pc' = "browse" => config' = config]_vars
\* a valid URL refused for holding an entry that a walk added
C9_Witness ==
    /\ A_IO \in Range(Blacklist)
    /\ A_IO_X \notin Range(Blacklist)
    /\ _is_valid_url(A_IO_X)
    /\ ~_should_accept_url(A_IO_X)

\* C10: in a walk whose pages all gave at most one accepted link, the
\* frontier has lost one entry for each hop made, so that the walk makes at
\* most as many hops as the frontier had entries at its start.
C10_FrontierShrinksByOne ==
    (pc \in {"browse", "hop_request", "browse_except"} /\ small)
        => Len(links) = size0 - depth /\ hops <= size0
\* two hops emptied a frontier of two
C10_Witness ==
    /\ pc = "browse"
    /\ small
    /\ size0 = 2
    /\ depth = 2
    /\ links = <<>>

\* the three conditions of acceptance, with the blacklist of this moment
Accepted(u) ==
    /\ u # None
    /\ Len(u) > 0
    /\ _is_valid_url(u)
    /\ \A k \in 1..Len(Blacklist) : ~Occurs(Blacklist[k], u)
\* this step assigns the frontier: seeded from a root page, or replaced by
\* the links of a hop's page (the branch that leaves the blacklist alone)
FrontierAssigned ==
    \/ pc = "root_request" /\ pc' = "browse"
    \/ pc = "hop_request" /\ pc' = "browse" /\ Blacklist' = Blacklist
\* C11: every URL a step puts in the frontier, by seeding or by replacing,
\* is non-empty, valid and holds no entry of the blacklist of that moment.
C11_InsertedWereAccepted ==
    [][FrontierAssigned => \A k \in 1..Len(links') : Accepted(links'[k])]_vars
\* a frontier that a hop has just replaced
C11_Witness ==
    /\ pc = "browse"
    /\ ~small
    /\ depth = 1
    /\ Len(links) = 2

\* a GET that failed inside the try of _request
ErrorResponse == [kind |-> "error", body |-> <<>>]
Pages ==
    {ErrorResponse,
     [kind |-> "ok", body |-> <<>>],
     [kind |-> "ok", body |-> << <<"/","x">>, <<>> >>]}
\* s without its entry at i
Without(s, i) ==
    [j \in 1..(Len(s) - 1) |-> IF j < i THEN s[j] ELSE s[j + 1]]
\* C13: a hop whose page has more than one accepted link makes exactly these
\* links the frontier and leaves the blacklist; any other hop takes one
\* occurrence of the visited URL out of the frontier, the other entries
\* staying as they are, and appends the URL to the blacklist.
C13_FrontierUpdateRule ==
    [][pc = "hop_request" =>
          \A resp \in Pages :
             \A sub_links \in {_extract_urls(_request(resp), random_link)} :
                update(sub_links) =>
                   IF Len(sub_links) > 1
                   THEN /\ links' = sub_links
                        /\ Blacklist' = Blacklist
                   ELSE /\ \E i \in 1..Len(links) :
                              /\ links[i] = random_link
                              /\ links' = Without(links, i)
                        /\ Blacklist' = Blacklist \o <<random_link>>]_vars
\* one of two occurrences of the visited URL was removed
C13_Witness ==
    /\ pc = "browse"
    /\ depth = 1
    /\ size0 = 2
    /\ links = <<random_link>>
    /\ random_link \in Range(Blacklist)

\* control is inside _browse_from_links
InWalk(p) == p \in {"browse", "hop_request", "browse_except"}
\* C14: a hop, whichever way it ends (frontier replaced, dead end, transport
\* error handled), enters the next frame with depth + 1; inside a walk the
\* depth never goes down, and at every frame it equals the hops made.
C14_DepthUpByOnePerHop ==
    [][/\ ((pc = "hop_request" \/ pc = "browse_except") /\ pc' = "browse")
             => depth' = depth + 1
       /\ (InWalk(pc) /\ InWalk(pc')) => depth' >= depth
       /\ pc' = "browse" => depth' = hops']_vars
\* two hops made, one replacing the frontier and one blacklisting
C14_Witness ==
    /\ pc = "browse"
    /\ depth = 2
    /\ ~small
    /\ Len(Blacklist) > 1

\* C15: a walk step with an empty frontier or with depth >= max_depth
\* returns to the session loop without error, signal or fetch, the deadline
\* passed or not; the timeout signal is raised only by a step with a
\* non-empty frontier and depth < max_depth.
C15_DeadEndBeforeDeadline ==
    [][/\ (pc = "browse" /\ (Len(links) = 0 \/ depth >= config.max_depth))
             => /\ pc' = "loop"
                /\ exc' = "none"
                /\ links' = links
                /\ config' = config
       /\ (exc' = "CrawlerTimedOut" /\ exc # "CrawlerTimedOut")
             => /\ pc = "browse"
                /\ Len(links) > 0
                /\ depth < config.max_depth]_vars
\* a step at max_depth, links left, the deadline passed
C15_Witness ==
    /\ pc = "browse"
    /\ links # <<>>
    /\ depth >= config.max_depth
    /\ _is_timeout_reached

\* C16: a transport error of a candidate's fetch is handled in the walk: the
\* candidate leaves the frontier (one entry, the others stay), it is
\* appended to the blacklist, and the walk goes on at depth + 1.
C16_TransportErrorRecovered ==
    [][/\ (pc = "hop_request" /\ exc' = "ClientError")
             => /\ pc' = "browse_except"
                /\ links' = links
                /\ config' = config
       /\ pc = "browse_except"
             => /\ pc' = "browse"
                /\ exc' = "none"
                /\ depth' = depth + 1
                /\ \E i \in 1..Len(links) :
                      /\ links[i] = random_link
                      /\ links' = Without(links, i)
                /\ Blacklist' = Blacklist \o <<random_link>>]_vars
\* the error is in the walk's handler, another candidate is left
C16_Witness ==
    /\ pc = "browse_except"
    /\ exc = "ClientError"
    /\ Len(links) = 2

\* C17: a transport error of the root fetch and a MemoryError of any fetch
\* end the iteration only: the handler goes back to the loop with the
\* blacklist as it was, and the loop fetches a root before any walk.
C17_FailureEndsIterationOnly ==
    [][/\ (pc = "root_request" /\ exc' \in {"ClientError", "MemoryError"})
             => pc' = "crawl_except" /\ config' = config
       /\ (pc = "hop_request" /\ exc' = "MemoryError")
             => pc' = "crawl_except" /\ config' = config /\ links' = links
       /\ (pc = "crawl_except" /\ exc \in {"ClientError", "MemoryError"})
             => pc' = "loop" /\ config' = config
       /\ pc = "loop" => pc' = "root_request"]_vars
\* a MemoryError of a candidate's fetch has reached the session loop
C17_Witness ==
    /\ pc = "crawl_except"
    /\ exc = "MemoryError"
    /\ depth = 1
    /\ links # <<>>

\* C18: without a configured timeout (0, or absent) the deadline test never
\* fires, whatever the clock shows: the timeout signal is never raised and
\* the return of the session loop is never reached.
C18_NoTimeoutNeverFires ==
    config.timeout = 0 =>
        /\ exc # "CrawlerTimedOut"
        /\ pc # "done"
\* a walk step that goes on with the clock at its highest
C18_Witness ==
    /\ config.timeout = 0
    /\ pc = "browse"
    /\ links # <<>>
    /\ depth < config.max_depth
    /\ now = MaxClock

\* C19: the step that starts a walk sets depth 0 and makes the frontier
\* exactly the accepted links of the root page just fetched, whatever the
\* frontier held before; the blacklist stays as the earlier walks left it.
C19_WalkStartsAfresh ==
    [][/\ (pc = "root_request" /\ pc' = "browse")
             => /\ depth' = 0
                /\ hops' = 0
                /\ Blacklist' = Blacklist
       /\ pc = "root_request" =>
             \A resp \in Pages :
                \A found \in {_extract_urls(_request(resp), url)} :
                   seed(found) => links' = found]_vars
\* a walk of a later iteration is about to begin
C19_Witness ==
    /\ pc = "browse"
    /\ depth = 0
    /\ hops = 0
    /\ links # <<>>
    /\ Len(Blacklist) > 1

\* C20: while a candidate is being fetched or its transport error handled,
\* the candidate is in the frontier, so list.index never raises ValueError.
C20_RemovedLinkIsInFrontier ==
    /\ exc # "ValueError"
    /\ InWalk(pc) /\ pc # "browse" => random_link \in Range(links)
\* a removal was made and left the other candidate
C20_Witness ==
    /\ pc = "browse"
    /\ small
    /\ depth = 1
    /\ size0 = 2
    /\ Len(links) = 1
    /\ random_link \notin Range(links)
    /\ random_link \in Range(Blacklist)

====
